---- MODULE Spec2Model ----
(***************************************************************************)
(* The two DLHub tutorial notebooks (publishing a Keras model, publishing  *)
(* a scikit-learn model) as a state machine.                               *)
(*                                                                         *)
(* A notebook is a sequence of code cells, a cell a sequence of Python     *)
(* statements.  A run executes the statements in order in one kernel: the  *)
(* state is the kernel's namespace, the files on disk, the two metadata    *)
(* descriptors (model_info, dataset_info), what was handed to the          *)
(* DLHubClient, the standard output, and the publish job of the remote     *)
(* service.  Every statement that calls into a library may raise; an       *)
(* uncaught exception ends the run at that statement.                      *)
(***************************************************************************)
EXTENDS Integers, Sequences, FiniteSets, TLC

VARIABLES
    nb,         \* which notebook this kernel runs: "keras" or "sklearn"
    pc,         \* [cell, idx]: the next statement to execute
    ns,         \* names bound in the kernel's namespace
    fs,         \* the files: path -> "absent" | "open" | "closed" | "truncated"
    desc,       \* descriptor object -> (key -> sequence of values set on it)
    created,    \* descriptor objects create_model has returned
    trace,      \* the statements executed so far, as [op, obj, sdk], in order
    raised,     \* "none", or the kind of the uncaught exception that ended the run
    skipped,    \* the cells (by index) left out of this run
    fmt,        \* K.image_data_format(): "channels_first" | "channels_last"
    nTrain,     \* number of examples mnist.load_data() returns for training
    nTest,      \* number of examples mnist.load_data() returns for testing
    fitX,       \* indices of x_train the model was fitted on
    fitY,       \* indices of y_train the model was fitted on
    valN,       \* indices of the test set given to fit as validation_data
    evalN,      \* indices of the test set given to evaluate
    client,     \* a DLHubClient has been constructed and bound to dl
    pubCalls,   \* number of calls of publish_servable
    handed,     \* the descriptor objects passed to publish_servable
    published,  \* the content passed to publish_servable (key -> values)
    taskId,     \* the task ID publish_servable returned (0: none)
    stdout,     \* what the run printed that matters here: [what, id]
    job         \* the remote publish job: "none" | "submitted" | "running" | "done" | "failed"

vars == <<nb, pc, ns, fs, desc, created, trace, raised, skipped, fmt, nTrain, nTest,
          fitX, fitY, valN, evalN, client, pubCalls, handed, published, taskId,
          stdout, job>>

kernelVars == <<pc, ns, fs, desc, created, trace, raised, skipped, fitX, fitY, valN,
                evalN, client, pubCalls, handed, published, taskId, stdout>>

----------------------------------------------------------------------------
(* Bounds of the model and constants of the notebooks. *)

\* train_size = 100
TrainSize == 100

\* mnist.load_data() returns at least train_size training examples: the model
\* draws the size of the training set from TrainSize .. TrainSize + ExtraTrain
ExtraTrain == 2

\* the size of the test set is drawn from 1 .. MaxTest
MaxTest == 2

\* the task ID the service returns is drawn from 1 .. MaxTaskId
MaxTaskId == 2

\* at most MaxSkips cells are left out of a run
MaxSkips == 1

----------------------------------------------------------------------------
(* Statements. *)

\* a statement that only binds names (or prints): no SDK call, no object
S(line, op, uses, defs) ==
    [line |-> line, op |-> op, obj |-> "", key |-> "", val |-> <<>>,
     uses |-> uses, defs |-> defs, sdk |-> FALSE]

\* a statement about a file or an object, not a call into dlhub_sdk
F(line, op, obj, uses, defs) ==
    [line |-> line, op |-> op, obj |-> obj, key |-> "", val |-> <<>>,
     uses |-> uses, defs |-> defs, sdk |-> FALSE]

\* a call into dlhub_sdk on (or creating) the object obj
D(line, op, obj, key, val, uses, defs) ==
    [line |-> line, op |-> op, obj |-> obj, key |-> key, val |-> val,
     uses |-> uses, defs |-> defs, sdk |-> TRUE]

KerasArtifact == "keras_model.hd5"
SklearnArtifact == "scikit_learn_model/model.pkl"
IrisCsv == "scikit_learn_model/iris.csv"

\* the columns of iris.csv, as the annotate_column calls name them
IrisColumns == <<"sepal_length", "sepal_width", "petal_length", "petal_width", "species">>

\* data.columns[:-1]
AllButLast(s) == SubSeq(s, 1, Len(s) - 1)

\* data.columns[-1:]
LastOnly(s) == SubSeq(s, Len(s), Len(s))

----------------------------------------------------------------------------
(* The Keras notebook, cell by cell. *)

\* the training cell
KerasTrainCell == <<
    S(62, "import", {}, {"print_function"}),
    S(63, "import", {}, {"keras"}),
    S(64, "import", {}, {"mnist"}),
    S(65, "import", {}, {"Sequential"}),
    S(66, "import", {}, {"Dense", "Dropout", "Flatten"}),
    S(67, "import", {}, {"Conv2D", "MaxPooling2D"}),
    S(68, "import", {}, {"K"}),
    S(70, "assign", {}, {"batch_size"}),
    S(71, "assign", {}, {"num_classes"}),
    S(72, "assign", {}, {"epochs"}),
    S(73, "assign", {}, {"train_size"}),
    S(76, "assign", {}, {"img_rows", "img_cols"}),
    S(79, "load_data", {"mnist"}, {"x_train", "y_train", "x_test", "y_test"}),
    S(81, "reshape", {"K", "x_train", "x_test", "img_rows", "img_cols"},
                     {"x_train", "x_test", "input_shape"}),
    S(90, "astype", {"x_train"}, {"x_train"}),
    S(91, "astype", {"x_test"}, {"x_test"}),
    S(92, "scale", {"x_train"}, {"x_train"}),
    S(93, "scale", {"x_test"}, {"x_test"}),
    S(94, "print", {"x_train"}, {}),
    S(95, "print", {"x_train"}, {}),
    S(96, "print", {"x_test"}, {}),
    S(99, "to_categorical", {"keras", "y_train", "num_classes"}, {"y_train"}),
    S(100, "to_categorical", {"keras", "y_test", "num_classes"}, {"y_test"}),
    S(102, "Sequential", {"Sequential"}, {"model"}),
    S(103, "add", {"model", "Conv2D", "input_shape"}, {}),
    S(106, "add", {"model", "Conv2D"}, {}),
    S(107, "add", {"model", "MaxPooling2D"}, {}),
    S(108, "add", {"model", "Dropout"}, {}),
    S(109, "add", {"model", "Flatten"}, {}),
    S(110, "add", {"model", "Dense"}, {}),
    S(111, "add", {"model", "Dropout"}, {}),
    S(112, "add", {"model", "Dense", "num_classes"}, {}),
    S(114, "compile", {"model", "keras"}, {}),
    F(118, "fit", "model", {"model", "x_train", "y_train", "train_size", "batch_size",
                            "epochs", "x_test", "y_test"}, {}),
    F(123, "evaluate", "model", {"model", "x_test", "y_test"}, {"score"}),
    S(124, "print", {"score"}, {}),
    S(125, "print", {"score"}, {}),
    F(128, "save", KerasArtifact, {"model"}, {}) >>

\* mutant: the classes are computed from num_classes, a name of the training cell
KerasDescribeCell_NumClasses == <<
    S(148, "import", {}, {"KerasModel"}),
    D(151, "create_model", "model_info", "path", <<KerasArtifact>>,
      {"KerasModel", "num_classes"}, {"model_info"}) >>

\* "Describe the model": KerasModel.create_model('keras_model.hd5', ...)
KerasDescribeCell == <<
    S(148, "import", {}, {"KerasModel"}),
    D(151, "create_model", "model_info", "path", <<KerasArtifact>>,
      {"KerasModel"}, {"model_info"}) >>

\* mutant: the model's descriptor is given authors as well
KerasTitleCell_WithAuthors == <<
    D(167, "set_title", "model_info", "title", <<"MNIST Digit Classifier">>,
      {"model_info"}, {}),
    D(168, "set_name", "model_info", "name", <<"mnist_tiny_example">>,
      {"model_info"}, {}),
    D(169, "set_domains", "model_info", "domains", <<"general", "digit recognition">>,
      {"model_info"}, {}),
    D(169, "set_authors", "model_info", "authors", <<"Marshall, R.A.">>,
      {"model_info"}, {}) >>

\* name, title and domains of the model
KerasTitleCell == <<
    D(167, "set_title", "model_info", "title", <<"MNIST Digit Classifier">>,
      {"model_info"}, {}),
    D(168, "set_name", "model_info", "name", <<"mnist_tiny_example">>,
      {"model_info"}, {}),
    D(169, "set_domains", "model_info", "domains", <<"general", "digit recognition">>,
      {"model_info"}, {}) >>

\* mutant: only the output is described
KerasOutputsCell_OutputOnly == <<
    D(185, "setitem", "model_info", "output_description",
      <<"Probabilities of being 0-9">>, {"model_info"}, {}) >>

\* the outputs "in more detail": item assignment on model_info
KerasOutputsCell == <<
    D(185, "setitem", "model_info", "output_description",
      <<"Probabilities of being 0-9">>, {"model_info"}, {}),
    D(186, "setitem", "model_info", "input_description",
      <<"Image of a digit">>, {"model_info"}, {}) >>

\* "Print out the result"
KerasPrintCell == <<
    S(202, "import", {}, {"json"}),
    S(204, "print", {}, {}),
    D(205, "to_dict", "model_info", "", <<>>, {"json", "model_info"}, {}) >>

\* mutant: the publish call is made twice
KerasPublishCell_Twice == <<
    S(225, "import", {}, {"dlhub_sdk"}),
    D(226, "DLHubClient", "dl", "", <<>>, {"dlhub_sdk"}, {"dl"}),
    D(229, "publish_servable", "model_info", "", <<>>, {"dl", "model_info"}, {"task_id"}),
    D(229, "publish_servable", "model_info", "", <<>>, {"dl", "model_info"}, {"task_id"}),
    F(230, "print_task_id", "task_id", {"task_id"}, {}) >>

\* "Publishing the model to DLHub"
KerasPublishCell == <<
    S(225, "import", {}, {"dlhub_sdk"}),
    D(226, "DLHubClient", "dl", "", <<>>, {"dlhub_sdk"}, {"dl"}),
    D(229, "publish_servable", "model_info", "", <<>>, {"dl", "model_info"}, {"task_id"}),
    F(230, "print_task_id", "task_id", {"task_id"}, {}) >>

KerasCells == <<KerasTrainCell, KerasDescribeCell, KerasTitleCell, KerasOutputsCell,
                KerasPrintCell, KerasPublishCell>>

\* the cell the notebook says can be skipped
KerasTrainCellIndex == 1

----------------------------------------------------------------------------
(* The scikit-learn notebook, cell by cell. *)

\* "Describing the training dataset"
SklearnDatasetCell == <<
    S(314, "import", {}, {"TabularDataset"}),
    S(315, "import", {}, {"pd"}),
    S(316, "import", {}, {"json"}),
    F(319, "read_csv", IrisCsv, {"pd"}, {"data"}),
    D(322, "create_model", "dataset_info", "path", <<IrisCsv>>,
      {"TabularDataset"}, {"dataset_info"}) >>

\* alternate identifier, paper link, domain, column descriptions, provenance
SklearnDatasetMetaCell == <<
    D(339, "add_alternate_identifier", "dataset_info", "alternate_identifier",
      <<"https://archive.ics.uci.edu/ml/datasets/Iris">>, {"dataset_info"}, {}),
    D(343, "add_related_identifier", "dataset_info", "related_identifier",
      <<"10.1111/j.1469-1809.1936.tb02137.x">>, {"dataset_info"}, {}),
    D(348, "set_domains", "dataset_info", "domains", <<"biology">>, {"dataset_info"}, {}),
    D(351, "annotate_column", "dataset_info", "columns", <<IrisColumns[1]>>,
      {"dataset_info"}, {}),
    D(352, "annotate_column", "dataset_info", "columns", <<IrisColumns[2]>>,
      {"dataset_info"}, {}),
    D(353, "annotate_column", "dataset_info", "columns", <<IrisColumns[3]>>,
      {"dataset_info"}, {}),
    D(354, "annotate_column", "dataset_info", "columns", <<IrisColumns[4]>>,
      {"dataset_info"}, {}),
    D(355, "annotate_column", "dataset_info", "columns", <<IrisColumns[5]>>,
      {"dataset_info"}, {}),
    D(358, "mark_inputs", "dataset_info", "inputs", AllButLast(IrisColumns),
      {"dataset_info", "data"}, {}),
    D(359, "mark_labels", "dataset_info", "labels", LastOnly(IrisColumns),
      {"dataset_info", "data"}, {}),
    D(362, "set_title", "dataset_info", "title", <<"Iris Dataset">>, {"dataset_info"}, {}),
    D(363, "set_name", "dataset_info", "name", <<"iris_dataset">>, {"dataset_info"}, {}),
    D(364, "set_authors", "dataset_info", "authors", <<"Marshall, R.A.">>,
      {"dataset_info"}, {}) >>

\* "Print out the result"
SklearnDatasetPrintCell == <<
    D(382, "to_dict", "dataset_info", "", <<>>, {"json", "dataset_info"}, {}) >>

\* "Make a model using the Iris dataset"; the with statement of lines 415-416 is
\* its three steps: open the file, dump into it, close it on leaving the block
SklearnTrainCell == <<
    S(400, "import", {}, {"SVC"}),
    S(401, "import", {}, {"pkl"}),
    S(402, "import", {}, {"pd"}),
    F(405, "read_csv", IrisCsv, {"pd"}, {"data"}),
    S(406, "print", {"data"}, {}),
    S(410, "SVC", {"SVC"}, {"model"}),
    S(411, "fit_svc", {"model", "data"}, {}),
    S(412, "print", {}, {}),
    F(415, "open", SklearnArtifact, {}, {"fp"}),
    F(416, "dump", SklearnArtifact, {"pkl", "model", "fp"}, {}),
    F(416, "close", SklearnArtifact, {"fp"}, {}),
    S(417, "print", {}, {}) >>

\* "Describe the model": ScikitLearnModel.create_model('scikit_learn_model/model.pkl', ...)
SklearnDescribeCell == <<
    S(439, "import", {}, {"ScikitLearnModel"}),
    D(441, "create_model", "model_info", "path", <<SklearnArtifact>>,
      {"ScikitLearnModel", "data"}, {"model_info"}) >>

\* name, title and domains of the model
SklearnTitleCell == <<
    D(459, "set_title", "model_info", "title", <<"Example Scikit-Learn Model">>,
      {"model_info"}, {}),
    D(460, "set_name", "model_info", "name", <<"iris_svm">>, {"model_info"}, {}),
    D(461, "set_domains", "model_info", "domains", <<"biology">>, {"model_info"}, {}) >>

\* print(json.dumps(model_info.to_dict(), indent=2))
SklearnPrintCell == <<
    D(477, "to_dict", "model_info", "", <<>>, {"json", "model_info"}, {}) >>

\* "Publishing the model to DLHub"
SklearnPublishCell == <<
    S(497, "import", {}, {"dlhub_sdk"}),
    D(498, "DLHubClient", "dl", "", <<>>, {"dlhub_sdk"}, {"dl"}),
    D(501, "publish_servable", "model_info", "", <<>>, {"dl", "model_info"}, {"task_id"}),
    F(502, "print_task_id", "task_id", {"task_id"}, {}) >>

\* the last code cell of the notebook is empty
SklearnEmptyCell == << >>

\* mutant: the model is described before the cell that trains and saves it
SklearnCells_DescribeFirst ==
    <<SklearnDatasetCell, SklearnDatasetMetaCell, SklearnDatasetPrintCell,
      SklearnDescribeCell, SklearnTrainCell, SklearnTitleCell,
      SklearnPrintCell, SklearnPublishCell, SklearnEmptyCell>>

SklearnCells == <<SklearnDatasetCell, SklearnDatasetMetaCell, SklearnDatasetPrintCell,
                  SklearnTrainCell, SklearnDescribeCell, SklearnTitleCell,
                  SklearnPrintCell, SklearnPublishCell, SklearnEmptyCell>>

Notebooks == {"keras", "sklearn"}

Cells(n) == IF n = "keras" THEN KerasCells ELSE SklearnCells

\* the model artifact each notebook publishes
Artifact(n) == IF n = "keras" THEN KerasArtifact ELSE SklearnArtifact

----------------------------------------------------------------------------
(* The kernel. *)

Objects == {"model_info", "dataset_info"}

Keys == {"path", "title", "name", "domains", "input_description", "output_description",
         "alternate_identifier", "related_identifier", "authors", "columns", "inputs",
         "labels"}

Files == {KerasArtifact, SklearnArtifact, IrisCsv}

\* a descriptor nothing has been set on
EmptyDesc == [k \in Keys |-> << >>]

Pos(c, i) == [cell |-> c, idx |-> i]

\* the first cell at or after c that holds a statement; past the last cell if none
FirstCellFrom(cells, c) ==
    LET ne == {k \in c..Len(cells) : Len(cells[k]) > 0}
    IN  IF ne = {} THEN Len(cells) + 1
        ELSE CHOOSE k \in ne : \A j \in ne : k <= j

\* the statement after position p in a top-to-bottom run of notebook n
After(n, p) ==
    IF p.idx < Len(Cells(n)[p.cell]) THEN Pos(p.cell, p.idx + 1)
    ELSE Pos(FirstCellFrom(Cells(n), p.cell + 1), 1)

\* every cell has been run or passed over
Finished == pc.cell > Len(Cells(nb))

\* mutant: the kernel goes on after an exception
Running_IgnoresErrors == ~Finished

\* the run goes on: no exception has been raised and a statement is left
Running == raised = "none" /\ ~Finished

\* the statement about to execute
Cur == Cells(nb)[pc.cell][pc.idx]

\* every name the statement reads is bound
Bound(s) == s.uses \subseteq ns

\* x[:k] of a sequence of n elements, as the set of its indices
Slice(n, k) == {i \in 0..(n - 1) : i < k}

\* the whole of a sequence of n elements
Whole(n) == 0..(n - 1)

\* mutant: the model is fitted on the whole training set
FitSlice_All(n) == Whole(n)

\* x_train[:train_size], y_train[:train_size]
FitSlice(n) == Slice(n, TrainSize)

\* mutant: the scikit-learn notebook publishes the dataset's descriptor
PublishArg_Dataset(s) == IF nb = "sklearn" THEN "dataset_info" ELSE s.obj

\* the object publish_servable is given
PublishArg(s) == s.obj

\* statements whose only effect here is to bind names or print
PlainOps == {"import", "assign", "print", "astype", "scale", "to_categorical",
             "Sequential", "add", "compile", "SVC", "fit_svc"}

\* SDK methods that add to a list of the descriptor instead of replacing a value
AppendingOps == {"add_alternate_identifier", "add_related_identifier", "annotate_column"}

Init ==
    /\ nb \in Notebooks
    /\ pc = Pos(FirstCellFrom(Cells(nb), 1), 1)
    /\ ns = {}
    /\ fs \in {f \in [Files -> {"absent", "closed"}] : f[IrisCsv] = "closed"}
    /\ desc = [o \in Objects |-> EmptyDesc]
    /\ created = {}
    /\ trace = << >>
    /\ raised = "none"
    /\ skipped = {}
    /\ fmt = "unknown"
    /\ nTrain = 0
    /\ nTest = 0
    /\ fitX = {}
    /\ fitY = {}
    /\ valN = {}
    /\ evalN = {}
    /\ client = FALSE
    /\ pubCalls = 0
    /\ handed = {}
    /\ published = EmptyDesc
    /\ taskId = 0
    /\ stdout = << >>
    /\ job = "none"

\* the statement s executes normally: what every statement does
Exec(s) ==
    /\ pc' = After(nb, pc)
    /\ ns' = ns \cup s.defs
    /\ trace' = Append(trace, [op |-> s.op, obj |-> s.obj, sdk |-> s.sdk])
    /\ UNCHANGED <<nb, raised, skipped>>

\* the statement at pc may execute
Ready(ops) == Running /\ Cur.op \in ops /\ Bound(Cur)

ExecPlain ==
    /\ Ready(PlainOps)
    /\ Exec(Cur)
    /\ UNCHANGED <<fs, desc, created, fmt, nTrain, nTest, fitX, fitY, valN, evalN,
                   client, pubCalls, handed, published, taskId, stdout, job>>

\* (x_train, y_train), (x_test, y_test) = mnist.load_data()
LoadData ==
    /\ Ready({"load_data"})
    /\ Exec(Cur)
    /\ nTrain' \in TrainSize..(TrainSize + ExtraTrain)
    /\ nTest' \in 1..MaxTest
    /\ UNCHANGED <<fs, desc, created, fmt, fitX, fitY, valN, evalN,
                   client, pubCalls, handed, published, taskId, stdout, job>>

\* if K.image_data_format() == 'channels_first': ... else: ...
Reshape ==
    /\ Ready({"reshape"})
    /\ Exec(Cur)
    /\ fmt' \in {"channels_first", "channels_last"}
    /\ UNCHANGED <<fs, desc, created, nTrain, nTest, fitX, fitY, valN, evalN,
                   client, pubCalls, handed, published, taskId, stdout, job>>

\* data = pd.read_csv('scikit_learn_model/iris.csv', header=1)
ReadCsv ==
    /\ Ready({"read_csv"})
    /\ fs[Cur.obj] = "closed"
    /\ Exec(Cur)
    /\ UNCHANGED <<fs, desc, created, fmt, nTrain, nTest, fitX, fitY, valN, evalN,
                   client, pubCalls, handed, published, taskId, stdout, job>>

\* model.fit(x_train[:train_size], y_train[:train_size], ..., validation_data=(x_test, y_test))
Fit ==
    /\ Ready({"fit"})
    /\ Exec(Cur)
    /\ fitX' = FitSlice(nTrain)
    /\ fitY' = FitSlice(nTrain)
    /\ valN' = Whole(nTest)
    /\ UNCHANGED <<fs, desc, created, fmt, nTrain, nTest, evalN,
                   client, pubCalls, handed, published, taskId, stdout, job>>

\* score = model.evaluate(x_test, y_test, verbose=0)
Evaluate ==
    /\ Ready({"evaluate"})
    /\ Exec(Cur)
    /\ evalN' = Whole(nTest)
    /\ UNCHANGED <<fs, desc, created, fmt, nTrain, nTest, fitX, fitY, valN,
                   client, pubCalls, handed, published, taskId, stdout, job>>

\* model.save("keras_model.hd5"): the file is written and closed when save returns
Save ==
    /\ Ready({"save"})
    /\ Exec(Cur)
    /\ fs' = [fs EXCEPT ![Cur.obj] = "closed"]
    /\ UNCHANGED <<desc, created, fmt, nTrain, nTest, fitX, fitY, valN, evalN,
                   client, pubCalls, handed, published, taskId, stdout, job>>

\* with open('scikit_learn_model/model.pkl', 'wb') as fp:
OpenFile ==
    /\ Ready({"open"})
    /\ Exec(Cur)
    /\ fs' = [fs EXCEPT ![Cur.obj] = "open"]
    /\ UNCHANGED <<desc, created, fmt, nTrain, nTest, fitX, fitY, valN, evalN,
                   client, pubCalls, handed, published, taskId, stdout, job>>

\*     pkl.dump(model, fp)
Dump ==
    /\ Ready({"dump"})
    /\ fs[Cur.obj] = "open"
    /\ Exec(Cur)
    /\ UNCHANGED <<fs, desc, created, fmt, nTrain, nTest, fitX, fitY, valN, evalN,
                   client, pubCalls, handed, published, taskId, stdout, job>>

\* leaving the with block closes fp
CloseFile ==
    /\ Ready({"close"})
    /\ Exec(Cur)
    /\ fs' = [fs EXCEPT ![Cur.obj] = "closed"]
    /\ UNCHANGED <<desc, created, fmt, nTrain, nTest, fitX, fitY, valN, evalN,
                   client, pubCalls, handed, published, taskId, stdout, job>>

\* which file a statement reads: create_model inspects the file it is given
ReadsFile(s) == IF s.op = "create_model" THEN s.val[1] ELSE s.obj

\* model_info = KerasModel.create_model('keras_model.hd5', ...)
\* model_info = ScikitLearnModel.create_model('scikit_learn_model/model.pkl', ...)
\* dataset_info = TabularDataset.create_model('scikit_learn_model/iris.csv', ...)
CreateModel ==
    /\ Ready({"create_model"})
    /\ fs[ReadsFile(Cur)] = "closed"
    /\ Exec(Cur)
    /\ desc' = [desc EXCEPT ![Cur.obj] = [EmptyDesc EXCEPT ![Cur.key] = Cur.val]]
    /\ created' = created \cup {Cur.obj}
    /\ UNCHANGED <<fs, fmt, nTrain, nTest, fitX, fitY, valN, evalN,
                   client, pubCalls, handed, published, taskId, stdout, job>>

\* a method of the descriptor that sets or extends one of its entries
SdkSet(op) ==
    /\ Ready({op})
    /\ Exec(Cur)
    /\ desc' = [desc EXCEPT ![Cur.obj][Cur.key] =
                    IF op \in AppendingOps THEN @ \o Cur.val ELSE Cur.val]
    /\ UNCHANGED <<fs, created, fmt, nTrain, nTest, fitX, fitY, valN, evalN,
                   client, pubCalls, handed, published, taskId, stdout, job>>

SetTitle == SdkSet("set_title")

SetName == SdkSet("set_name")

SetDomains == SdkSet("set_domains")

SetAuthors == SdkSet("set_authors")

AddAlternateIdentifier == SdkSet("add_alternate_identifier")

AddRelatedIdentifier == SdkSet("add_related_identifier")

AnnotateColumn == SdkSet("annotate_column")

MarkInputs == SdkSet("mark_inputs")

MarkLabels == SdkSet("mark_labels")

\* model_info['servable']['methods']['run'][...]['description'] = ...
SetItem == SdkSet("setitem")

\* print(json.dumps(<descriptor>.to_dict(), indent=2))
ToDict ==
    /\ Ready({"to_dict"})
    /\ Exec(Cur)
    /\ stdout' = Append(stdout, [what |-> Cur.obj, id |-> 0])
    /\ UNCHANGED <<fs, desc, created, fmt, nTrain, nTest, fitX, fitY, valN, evalN,
                   client, pubCalls, handed, published, taskId, job>>

\* dl = dlhub_sdk.DLHubClient()
NewClient ==
    /\ Ready({"DLHubClient"})
    /\ Exec(Cur)
    /\ client' = TRUE
    /\ UNCHANGED <<fs, desc, created, fmt, nTrain, nTest, fitX, fitY, valN, evalN,
                   pubCalls, handed, published, taskId, stdout, job>>

\* task_id = dl.publish_servable(model_info): the service acknowledges with a task ID
PublishServable ==
    /\ Ready({"publish_servable"})
    /\ client
    /\ Exec(Cur)
    /\ pubCalls' = pubCalls + 1
    /\ handed' = handed \cup {PublishArg(Cur)}
    /\ published' = desc[PublishArg(Cur)]
    /\ taskId' \in 1..MaxTaskId
    /\ job' = "submitted"
    /\ UNCHANGED <<fs, desc, created, fmt, nTrain, nTest, fitX, fitY, valN, evalN,
                   client, stdout>>

\* print(task_id)
PrintTaskId ==
    /\ Ready({"print_task_id"})
    /\ Exec(Cur)
    /\ stdout' = Append(stdout, [what |-> "task_id", id |-> taskId])
    /\ UNCHANGED <<fs, desc, created, fmt, nTrain, nTest, fitX, fitY, valN, evalN,
                   client, pubCalls, handed, published, taskId, job>>

\* a cell is left out of the run: the user goes on with the next cell without
\* running this one ("We have pre-trained a model saved in keras_model.hd5, so
\* you can skip the step below")
SkipCell ==
    /\ Running
    /\ pc.idx = 1
    /\ Cardinality(skipped) < MaxSkips
    /\ pc' = Pos(FirstCellFrom(Cells(nb), pc.cell + 1), 1)
    /\ skipped' = skipped \cup {pc.cell}
    /\ UNCHANGED <<nb, ns, fs, desc, created, trace, raised, fmt, nTrain, nTest, fitX,
                   fitY, valN, evalN, client, pubCalls, handed, published, taskId,
                   stdout, job>>

\* the run stops at the statement at pc with an uncaught exception of the kind given
Stop(kind) ==
    /\ raised' = kind
    /\ UNCHANGED <<nb, pc, ns, desc, created, trace, skipped, fmt, nTrain, nTest, fitX,
                   fitY, valN, evalN, client, taskId, stdout>>

\* a statement reads a name nothing has bound
NameError ==
    /\ Running
    /\ ~Bound(Cur)
    /\ Stop("NameError")
    /\ UNCHANGED <<fs, pubCalls, handed, published, job>>

\* a statement reads a file that is not there
FileError ==
    /\ Ready({"create_model", "read_csv"})
    /\ fs[ReadsFile(Cur)] # "closed"
    /\ Stop("FileNotFoundError")
    /\ UNCHANGED <<fs, pubCalls, handed, published, job>>

\* the files after statement s failed part way
FsAfterFailure(s) ==
    IF s.op = "save" THEN {fs, [fs EXCEPT ![s.obj] = "truncated"]}
    ELSE IF s.op \in {"dump", "close"} THEN {[fs EXCEPT ![s.obj] = "truncated"]}
    ELSE {fs}

\* a library call raises (no statement of the notebooks is inside a try)
RaiseExternal ==
    /\ Running
    /\ Bound(Cur)
    /\ Cur.op # "assign"
    /\ Stop("Exception")
    /\ fs' \in FsAfterFailure(Cur)
    /\ IF Cur.op = "publish_servable"
       THEN /\ pubCalls' = pubCalls + 1
            /\ handed' = handed \cup {PublishArg(Cur)}
            /\ published' = desc[PublishArg(Cur)]
            /\ job' \in {job, "submitted"}
       ELSE UNCHANGED <<pubCalls, handed, published, job>>

----------------------------------------------------------------------------
(* The remote service: the publish job runs on its own once submitted. *)

JobStart ==
    /\ job = "submitted"
    /\ job' = "running"
    /\ UNCHANGED <<nb, fmt, nTrain, nTest>>
    /\ UNCHANGED kernelVars

JobSucceed ==
    /\ job = "running"
    /\ job' = "done"
    /\ UNCHANGED <<nb, fmt, nTrain, nTest>>
    /\ UNCHANGED kernelVars

JobFail ==
    /\ job \in {"submitted", "running"}
    /\ job' = "failed"
    /\ UNCHANGED <<nb, fmt, nTrain, nTest>>
    /\ UNCHANGED kernelVars

----------------------------------------------------------------------------

\* a step of the notebook's kernel
KernelStep ==
    \/ ExecPlain \/ LoadData \/ Reshape \/ ReadCsv \/ Fit \/ Evaluate \/ Save
    \/ OpenFile \/ Dump \/ CloseFile \/ CreateModel
    \/ SetTitle \/ SetName \/ SetDomains \/ SetAuthors
    \/ AddAlternateIdentifier \/ AddRelatedIdentifier \/ AnnotateColumn
    \/ MarkInputs \/ MarkLabels \/ SetItem \/ ToDict
    \/ NewClient \/ PublishServable \/ PrintTaskId
    \/ SkipCell \/ NameError \/ FileError \/ RaiseExternal

\* a step of the remote service
ServiceStep == JobStart \/ JobSucceed \/ JobFail

Next == KernelStep \/ ServiceStep

Spec == Init /\ [][Next]_vars

\* the run is top to bottom: no cell was left out
TopToBottom == skipped = {}

\* the run reached the end of the notebook without an exception
Completed == Finished /\ raised = "none"

----------------------------------------------------------------------------
(* What the runs are checked against. *)

\* the positions of the trace at which op was executed on obj
Occ(op, obj) == {i \in 1..Len(trace) : trace[i].op = op /\ trace[i].obj = obj}

\* the positions at which the model artifact was written and closed
ArtifactWritten == Occ("save", KerasArtifact) \cup Occ("close", SklearnArtifact)

\* the statement at pc is op, and the run has not stopped
At(op) == Running /\ Cur.op = op

\* C1: in a top-to-bottom run of either notebook the stages come in one order:
\* the artifact is written and closed, then create_model builds model_info
\* from it, then publish_servable is called.  publish_servable is reached only
\* after create_model returned, create_model only with the artifact on disk,
\* closed, written by this run.
C1_StageOrder ==
    TopToBottom =>
        /\ \A p \in Occ("publish_servable", "model_info") :
              \E c \in Occ("create_model", "model_info") : c < p
        /\ \A c \in Occ("create_model", "model_info") :
              \E w \in ArtifactWritten : w < c
        /\ (At("create_model") /\ Cur.obj = "model_info") =>
              /\ fs[Artifact(nb)] = "closed"
              /\ ArtifactWritten # {}
        /\ (At("publish_servable") \/ pubCalls > 0) =>
              /\ "model_info" \in created
              /\ Occ("create_model", "model_info") # {}
              /\ desc["model_info"]["path"] = <<Artifact(nb)>>

\* a top-to-bottom run of the scikit-learn notebook went through the three stages
C1_Witness ==
    /\ nb = "sklearn" /\ TopToBottom /\ Completed
    /\ Occ("close", SklearnArtifact) # {}
    /\ Occ("publish_servable", "model_info") # {}

\* the entries of a descriptor that hold something
SetKeys(d) == {k \in Keys : d[k] # << >>}

\* C2 as stated: what either notebook publishes carries a title, domains, and
\* descriptions of the model's input and output
C2_AllThreeInBoth ==
    (TopToBottom /\ pubCalls > 0) =>
        {"title", "domains", "input_description", "output_description"}
            \subseteq SetKeys(published)

\* C2, amended: what either notebook publishes carries a title, a name and
\* domains; the Keras notebook adds descriptions of the input and the output,
\* the scikit-learn notebook sets neither.
C2_Enrichment ==
    (TopToBottom /\ pubCalls > 0) =>
        /\ {"title", "name", "domains"} \subseteq SetKeys(published)
        /\ nb = "keras" =>
              {"input_description", "output_description"} \subseteq SetKeys(published)
        /\ nb = "sklearn" =>
              {"input_description", "output_description"} \cap SetKeys(published) = {}

\* the scikit-learn notebook published its descriptor
C2_Witness ==
    /\ nb = "sklearn" /\ TopToBottom /\ pubCalls = 1
    /\ published["title"] = <<"Example Scikit-Learn Model">>

ListedOps == {"create_model", "set_title", "set_name", "set_domains", "annotate_column",
              "mark_inputs", "mark_labels", "to_dict", "publish_servable", "DLHubClient"}

\* what the notebooks use besides
UnlistedOps == {"add_alternate_identifier", "add_related_identifier", "set_authors",
                "setitem"}

\* the SDK operations the run has executed
SdkOpsUsed == {trace[i].op : i \in {j \in 1..Len(trace) : trace[j].sdk}}

\* C4 as stated: every SDK operation a run uses, and every change of a
\* descriptor, is one of the listed operations
C4_OnlyListedOps == SdkOpsUsed \subseteq ListedOps

\* C4, amended: the operations used are the listed ones and, besides,
\* add_alternate_identifier, add_related_identifier and set_authors (on
\* dataset_info) and direct item assignment (on model_info, Keras notebook);
\* a completed top-to-bottom run of the scikit-learn notebook uses the three
\* methods, one of the Keras notebook uses item assignment.
C4_OpsUsed ==
    /\ SdkOpsUsed \subseteq ListedOps \cup UnlistedOps
    /\ \A i \in 1..Len(trace) :
          /\ trace[i].op \in UnlistedOps \ {"setitem"} => trace[i].obj = "dataset_info"
          /\ trace[i].op = "setitem" => (nb = "keras" /\ trace[i].obj = "model_info")
    /\ (Completed /\ TopToBottom /\ nb = "sklearn") =>
          SdkOpsUsed = (ListedOps \cup UnlistedOps) \ {"setitem"}
    /\ (Completed /\ TopToBottom /\ nb = "keras") =>
          SdkOpsUsed = {"create_model", "set_title", "set_name", "set_domains", "setitem",
                        "to_dict", "DLHubClient", "publish_servable"}

\* a run of the scikit-learn notebook that called set_authors and ended
C4_Witness ==
    /\ nb = "sklearn" /\ Completed
    /\ "set_authors" \in SdkOpsUsed

\* the names the Keras training cell binds
KerasTrainDefs == UNION {KerasTrainCell[i].defs : i \in 1..Len(KerasTrainCell)}

\* C5: a top-to-bottom run is one sequence of statements in which
\* publish_servable is called once; its task ID is printed, and the kernel
\* then neither waits for the remote job nor touches it: printing the task ID
\* is possible whatever the job's state, and no step of the kernel after the
\* call changes the job or calls publish_servable again.
C5_PublishOnceNoWait ==
    /\ [](/\ pubCalls <= 1
          /\ Cardinality(Occ("publish_servable", "model_info")) <= 1
          /\ (TopToBottom /\ Completed) =>
                /\ pubCalls = 1
                /\ Cardinality(Occ("publish_servable", "model_info")) = 1
                /\ taskId >= 1
                /\ stdout[Len(stdout)] = [what |-> "task_id", id |-> taskId]
                /\ trace[Len(trace)].op = "print_task_id"
          /\ (At("print_task_id") /\ "task_id" \in ns) => ENABLED PrintTaskId)
    /\ [][(pubCalls >= 1 /\ kernelVars' # kernelVars) =>
             (job' = job /\ pubCalls' = pubCalls /\ handed' = handed)]_vars

\* the run ended while the remote job was still in progress
C5_Witness ==
    /\ TopToBottom /\ Completed
    /\ job \in {"submitted", "running"}

\* C6: in the Keras notebook, with the training cell left out and
\* keras_model.hd5 on disk, no later statement fails on a name or on a file:
\* the later cells read no name the training cell binds.  Without the file,
\* the only failure the skipped cell causes is the missing file.
C6_TrainingCellSkippable ==
    (nb = "keras" /\ skipped = {KerasTrainCellIndex}) =>
        /\ raised # "NameError"
        /\ fs[KerasArtifact] = "closed" => raised \in {"none", "Exception"}
        /\ Running => Cur.uses \cap KerasTrainDefs = {}

\* the Keras notebook ran to its end and published, the training cell left out
C6_Witness ==
    /\ nb = "keras" /\ skipped = {KerasTrainCellIndex}
    /\ Completed /\ pubCalls = 1 /\ taskId >= 1

\* C7: an exception raised by any statement ends the run there: the kernel
\* takes no further step, the statement at which it stopped stays the current
\* one, and a run that stopped before the publish cell's call never calls
\* publish_servable.
C7_StopsAtException ==
    /\ [](raised # "none" =>
            /\ ~Finished
            /\ Cur.op \notin {"publish_servable", "print_task_id"} =>
                  (pubCalls = 0 /\ job = "none" /\ handed = {}))
    /\ [][raised # "none" => UNCHANGED kernelVars]_vars

\* create_model raised in a top-to-bottom run: nothing was published
C7_Witness ==
    /\ TopToBottom /\ raised = "Exception"
    /\ Cur.op = "create_model" /\ Cur.obj = "model_info"
    /\ pubCalls = 0

\* C8: the Keras training cell fits the model on the first train_size = 100
\* training examples, x and y alike, validates and evaluates on the whole test
\* set, and saves the model last, after fit and evaluate.
C8_FitFirstHundred ==
    nb = "keras" =>
        /\ Occ("fit", "model") # {} =>
              /\ fitX = 0..99
              /\ fitY = fitX
              /\ nTest >= 1
              /\ valN = 0..(nTest - 1)
        /\ Occ("evaluate", "model") # {} => evalN = 0..(nTest - 1)
        /\ \A s \in Occ("save", KerasArtifact) :
              /\ \E f \in Occ("fit", "model") :
                    \E e \in Occ("evaluate", "model") : f < e /\ e < s
              /\ pc.cell # KerasTrainCellIndex

\* the model was fitted on a training set larger than train_size, and saved
C8_Witness ==
    /\ nb = "keras" /\ nTrain > TrainSize
    /\ Occ("save", KerasArtifact) # {}
    /\ Cardinality(fitX) = TrainSize

====
